---- MODULE Spec2Model ----
(***************************************************************************)
(* A model of y.py: LoopbackFuzzer (constructor, generate_random_patterns, *)
(* save_curl_response, fuzz_server, save_results, print_summary) and main. *)
(*                                                                         *)
(* Text is a sequence of one-character strings (a few fixed pieces, such   *)
(* as the base URL, are kept as one element).  The program counter pc      *)
(* names the statement main or fuzz_server is about to execute.  A         *)
(* KeyboardInterrupt may be delivered, and an exception may be raised,     *)
(* while a statement runs; where each is caught follows the try blocks of  *)
(* the source.  Timestamps, response headers and response body text are    *)
(* not modelled: a response is its status code and its content length.     *)
(***************************************************************************)
EXTENDS Naturals, Sequences, FiniteSets

VARIABLES
    pc,              \* the statement about to execute
    curl_dir,        \* whether the folder curl/ exists
    max_patterns,    \* self.max_patterns: <<>> is None, <<n>> is the integer n
    total_patterns,  \* generate_random_patterns' local total_patterns
    patterns,        \* the list under construction, then the list fuzz_server iterates
    i,               \* the loop's sequence number (enumerate(patterns, 1))
    pattern,         \* the loop's current pattern
    encoded_pattern, \* fuzz_server's local encoded_pattern
    url,             \* fuzz_server's local url
    response,        \* fuzz_server's local response
    curl_file,       \* fuzz_server's local curl_file
    results,         \* self.results
    files,           \* the artifact writes attempted in curl/, in order
    log_file,        \* the content of fuzzer_log.json: <<>> unwritten, <<list>> written
    summary,         \* what print_summary printed: <<>> not printed, <<record>> printed
    flagged,         \* the sequence numbers printed as INTERESTING
    delays,          \* the number of time.sleep(self.delay) calls made
    iters,           \* per started iteration: what the GET gave, how and where it ended
    exc,             \* str(e) of the RequestException being handled
    report,          \* the reporter functions that have returned, in order
    entered          \* whether main has called fuzz_server

vars == << pc, curl_dir, max_patterns, total_patterns, patterns, i, pattern,
           encoded_pattern, url, response, curl_file, results, files, log_file,
           summary, flagged, delays, iters, exc, report, entered >>

-----------------------------------------------------------------------------
(* Bounds of the model *)

\* The largest sample count a caller supplies; also the number of patterns after
\* which the generation loop is no longer followed when its target is 33^4.
MaxPatterns == 2

\* The draws of the four random.choice calls of one generated pattern, as
\* indices into values: "5@@12@31" and "@@@".
SampleDraws == { <<6, 1, 13, 33>>, <<1, 1, 1, 1>> }

\* The responses the target gives: status code and body length.
Responses == { [status_code |-> 200, content_length |-> 0],
               [status_code |-> 200, content_length |-> 2],
               [status_code |-> 204, content_length |-> 0],
               [status_code |-> 301, content_length |-> 0],
               [status_code |-> 404, content_length |-> 2],
               [status_code |-> 500, content_length |-> 0] }

\* str(e) of the transport errors requests.get raises.
TransportErrors == { "Read timed out." }

\* The statements of the loop's try block at which a KeyboardInterrupt is
\* followed: the calls that block, which are the GET (line 106), the write of
\* the artifact (line 113) and the sleep (line 136).
InterruptPoints == { "get", "save", "sleep" }

\* The statement of the loop's try block at which an exception that is not a
\* RequestException is followed: the GET (line 106).
RaisePoints == { "get" }

-----------------------------------------------------------------------------
(* Program constants *)

BASE_URL == << "http://rodong.rep.kp/ko/index.php?" >>
NumValues == 32
NumSlotChoices == 33
SeqWidth == 6
ErrorStatus == 400
OkStatus == 200

None == << >>
NoResponse == [status_code |-> 0, content_length |-> 0]

-----------------------------------------------------------------------------
(* Text *)

Digits == << "0", "1", "2", "3", "4", "5", "6", "7", "8", "9" >>

RECURSIVE Str(_)
\* str(n) for n >= 0: the decimal text
Str(n) == IF n < 10 THEN << Digits[n + 1] >>
          ELSE Str(n \div 10) \o << Digits[(n % 10) + 1] >>

RECURSIVE ZeroPad(_, _)
\* text t left-padded with "0" to at least width w (the format {:06d})
ZeroPad(t, w) == IF Len(t) >= w THEN t ELSE ZeroPad(<< "0" >> \o t, w)

\* ord(c) of the characters a pattern holds
Ord(c) == IF c = "@" THEN 64
          ELSE 47 + (CHOOSE d \in 1..10 : Digits[d] = c)

B64Alphabet ==
  << "A","B","C","D","E","F","G","H","I","J","K","L","M","N","O","P",
     "Q","R","S","T","U","V","W","X","Y","Z","a","b","c","d","e","f",
     "g","h","i","j","k","l","m","n","o","p","q","r","s","t","u","v",
     "w","x","y","z","0","1","2","3","4","5","6","7","8","9","+","/" >>

B64Char(n) == B64Alphabet[n + 1]

RECURSIVE b64encode(_)
\* base64.b64encode(pattern.encode()).decode(): three bytes give four
\* characters; a last group of one or two bytes is padded with "="
b64encode(t) ==
    IF Len(t) = 0 THEN << >>
    ELSE IF Len(t) = 1 THEN
        LET a == Ord(t[1])
        IN  << B64Char(a \div 4), B64Char((a % 4) * 16), "=", "=" >>
    ELSE IF Len(t) = 2 THEN
        LET a == Ord(t[1])
            b == Ord(t[2])
        IN  << B64Char(a \div 4), B64Char((a % 4) * 16 + b \div 16),
               B64Char((b % 16) * 4), "=" >>
    ELSE
        LET a == Ord(t[1])
            b == Ord(t[2])
            c == Ord(t[3])
        IN  << B64Char(a \div 4), B64Char((a % 4) * 16 + b \div 16),
               B64Char((b % 16) * 4 + c \div 64), B64Char(c % 64) >>
            \o b64encode(SubSeq(t, 4, Len(t)))

\* pattern.replace('@', '_').replace('/', '_')
SafePattern(p) == [k \in 1..Len(p) |->
                      IF p[k] = "@" \/ p[k] = "/" THEN "_" ELSE p[k]]

\* os.path.join(self.curl_folder, f"response_{response_count:06d}_{safe_pattern}.txt")
ArtifactPath(p, response_count) ==
    << "curl", "/", "response_" >> \o ZeroPad(Str(response_count), SeqWidth)
        \o << "_" >> \o SafePattern(p) \o << ".txt" >>

\* f"{self.base_url}{encoded_pattern}"
BuildUrl(enc) == BASE_URL \o enc

-----------------------------------------------------------------------------
(* generate_random_patterns *)

\* values = [""] + [str(i) for i in range(32)]
values == << << >> >> \o [k \in 1..NumValues |-> Str(k - 1)]

\* f"{pos1}@{pos2}@{pos3}@{pos4}" for the draws d
MakePattern(d) == values[d[1]] \o << "@" >> \o values[d[2]] \o << "@" >>
                  \o values[d[3]] \o << "@" >> \o values[d[4]]

\* Python truth of self.max_patterns: None and 0 are false
Truthy(mp) == mp # None /\ mp[1] # 0

\* total_patterns as lines 31-34 set it
TotalPatterns(mp) == IF Truthy(mp) THEN mp[1]
                     ELSE NumSlotChoices * NumSlotChoices * NumSlotChoices * NumSlotChoices

\* the orders random.shuffle may leave a list in
Shuffles(s) == { [k \in 1..Len(s) |-> s[f[k]]] :
                 f \in { g \in [1..Len(s) -> 1..Len(s)] :
                         \A x, y \in 1..Len(s) : g[x] = g[y] => x = y } }

-----------------------------------------------------------------------------
(* Where control is *)

\* the statements inside the try block of the loop body (lines 93-136)
TryBody == { "encode", "get", "save", "append", "flag", "sleep" }

\* the except clauses of the loop body (lines 138-159)
Handlers == { "h_req", "h_ki", "h_exc" }

\* the statements of fuzz_server
InFuzzServer == { "gen", "loop", "save_results", "print_summary" }
                    \cup TryBody \cup Handlers

\* the ways main ends: it returns after fuzz_server returned ("done"), after
\* printing "Fuzzing cancelled by user." ("cancelled") or "Fatal error: ..."
\* ("fatal"), or an exception leaves it uncaught ("uncaught")
Terminal == { "done", "cancelled", "fatal", "uncaught" }

NewIter == [got |-> "none", end |-> "open", at |-> "none"]

-----------------------------------------------------------------------------
(* The state before main runs *)

Init ==
    /\ pc = "construct"
    /\ curl_dir \in { "absent", "present" }
    /\ max_patterns \in { None } \cup { << n >> : n \in 0..MaxPatterns }
    /\ total_patterns = 0
    /\ patterns = << >>
    /\ i = 0
    /\ pattern = << >>
    /\ encoded_pattern = << >>
    /\ url = << >>
    /\ response = NoResponse
    /\ curl_file = None
    /\ results = << >>
    /\ files = << >>
    /\ log_file = << >>
    /\ summary = << >>
    /\ flagged = << >>
    /\ delays = 0
    /\ iters = << >>
    /\ exc = ""
    /\ report = << >>
    /\ entered = FALSE

-----------------------------------------------------------------------------
(* main and the constructor *)

\* LoopbackFuzzer(...) returns: the folder exists or os.makedirs creates it
Construct ==
    /\ pc = "construct"
    /\ curl_dir' = "present"
    /\ pc' = "prompt"
    /\ UNCHANGED << max_patterns, total_patterns, patterns, i, pattern,
                    encoded_pattern, url, response, curl_file, results, files,
                    log_file, summary, flagged, delays, iters, exc, report, entered >>

\* os.makedirs raises: the call at line 213 is outside main's try
ConstructFails ==
    /\ pc = "construct"
    /\ curl_dir = "absent"
    /\ pc' = "uncaught"
    /\ UNCHANGED << curl_dir, max_patterns, total_patterns, patterns, i, pattern,
                    encoded_pattern, url, response, curl_file, results, files,
                    log_file, summary, flagged, delays, iters, exc, report, entered >>

\* input() returns; main calls fuzz_server, which calls
\* generate_random_patterns: patterns = [], total_patterns set
Start ==
    /\ pc = "prompt"
    /\ entered' = TRUE
    /\ patterns' = << >>
    /\ total_patterns' = TotalPatterns(max_patterns)
    /\ pc' = "gen"
    /\ UNCHANGED << curl_dir, max_patterns, i, pattern, encoded_pattern, url,
                    response, curl_file, results, files, log_file, summary,
                    flagged, delays, iters, exc, report >>

-----------------------------------------------------------------------------
(* generate_random_patterns *)

\* one turn of the loop at line 37
GenStep ==
    /\ pc = "gen"
    /\ Len(patterns) < total_patterns
    /\ Len(patterns) <= MaxPatterns
    /\ \E d \in SampleDraws : patterns' = Append(patterns, MakePattern(d))
    /\ UNCHANGED << pc, curl_dir, max_patterns, total_patterns, i, pattern,
                    encoded_pattern, url, response, curl_file, results, files,
                    log_file, summary, flagged, delays, iters, exc, report, entered >>

\* the loop is over: shuffle, return; fuzz_server takes len(patterns)
GenReturn ==
    /\ pc = "gen"
    /\ Len(patterns) = total_patterns
    /\ \E s \in Shuffles(patterns) : patterns' = s
    /\ total_patterns' = Len(patterns)
    /\ i' = 0
    /\ pc' = "loop"
    /\ UNCHANGED << curl_dir, max_patterns, pattern, encoded_pattern, url,
                    response, curl_file, results, files, log_file, summary,
                    flagged, delays, iters, exc, report, entered >>

-----------------------------------------------------------------------------
(* fuzz_server: the loop *)

\* for i, pattern in enumerate(patterns, 1): the next pattern
LoopNext ==
    /\ pc = "loop"
    /\ i < Len(patterns)
    /\ i' = i + 1
    /\ pattern' = patterns[i + 1]
    /\ iters' = Append(iters, NewIter)
    /\ pc' = "encode"
    /\ UNCHANGED << curl_dir, max_patterns, total_patterns, patterns,
                    encoded_pattern, url, response, curl_file, results, files,
                    log_file, summary, flagged, delays, exc, report, entered >>

\* the list is exhausted: on to save_results
LoopExit ==
    /\ pc = "loop"
    /\ i = Len(patterns)
    /\ pc' = "save_results"
    /\ UNCHANGED << curl_dir, max_patterns, total_patterns, patterns, i, pattern,
                    encoded_pattern, url, response, curl_file, results, files,
                    log_file, summary, flagged, delays, iters, exc, report, entered >>

\* Encode computing the encoding and the url in the first iteration only
Encode_Once ==
    /\ pc = "encode"
    /\ encoded_pattern' = IF i = 1 THEN b64encode(pattern) ELSE encoded_pattern
    /\ url' = BuildUrl(encoded_pattern')
    /\ pc' = "get"
    /\ UNCHANGED << curl_dir, max_patterns, total_patterns, patterns, i, pattern,
                    response, curl_file, results, files, log_file, summary,
                    flagged, delays, iters, exc, report, entered >>

\* lines 94-103
Encode ==
    /\ pc = "encode"
    /\ encoded_pattern' = b64encode(pattern)
    /\ url' = BuildUrl(encoded_pattern')
    /\ pc' = "get"
    /\ UNCHANGED << curl_dir, max_patterns, total_patterns, patterns, i, pattern,
                    response, curl_file, results, files, log_file, summary,
                    flagged, delays, iters, exc, report, entered >>

\* requests.get returns a response
GetResponse ==
    /\ pc = "get"
    /\ \E r \in Responses : response' = r
    /\ iters' = [iters EXCEPT ![i].got = "response"]
    /\ pc' = "save"
    /\ UNCHANGED << curl_dir, max_patterns, total_patterns, patterns, i, pattern,
                    encoded_pattern, url, curl_file, results, files, log_file,
                    summary, flagged, delays, exc, report, entered >>

\* requests.get raises a RequestException: control goes to line 138
GetTransportError ==
    /\ pc = "get"
    /\ \E e \in TransportErrors : exc' = e
    /\ iters' = [iters EXCEPT ![i].got = "transport"]
    /\ pc' = "h_req"
    /\ UNCHANGED << curl_dir, max_patterns, total_patterns, patterns, i, pattern,
                    encoded_pattern, url, response, curl_file, results, files,
                    log_file, summary, flagged, delays, report, entered >>

\* SaveArtifact numbering the files from 0 (enumerate without its start)
SaveArtifact_FromZero ==
    /\ pc = "save"
    /\ \E ok \in BOOLEAN :
          /\ files' = Append(files,
                 [path |-> ArtifactPath(pattern, i - 1), ok |-> ok,
                  url |-> BuildUrl(encoded_pattern), pattern |-> pattern,
                  base64 |-> encoded_pattern,
                  status_code |-> response.status_code,
                  content_length |-> response.content_length])
          /\ curl_file' = IF ok THEN ArtifactPath(pattern, i - 1) ELSE None
    /\ pc' = "append"
    /\ UNCHANGED << curl_dir, max_patterns, total_patterns, patterns, i, pattern,
                    encoded_pattern, url, response, results, log_file, summary,
                    flagged, delays, iters, exc, report, entered >>

\* SaveArtifact returning the path even when the write failed
SaveArtifact_PathOnFailure ==
    /\ pc = "save"
    /\ \E ok \in BOOLEAN :
          files' = Append(files,
                 [path |-> ArtifactPath(pattern, i), ok |-> ok,
                  url |-> BuildUrl(encoded_pattern), pattern |-> pattern,
                  base64 |-> encoded_pattern,
                  status_code |-> response.status_code,
                  content_length |-> response.content_length])
    /\ curl_file' = ArtifactPath(pattern, i)
    /\ pc' = "append"
    /\ UNCHANGED << curl_dir, max_patterns, total_patterns, patterns, i, pattern,
                    encoded_pattern, url, response, results, log_file, summary,
                    flagged, delays, iters, exc, report, entered >>

\* lines 109-117 with save_curl_response: the write succeeds and the path is
\* returned, or it raises inside save_curl_response and None is returned
SaveArtifact ==
    /\ pc = "save"
    /\ \E ok \in BOOLEAN :
          /\ files' = Append(files,
                 [path |-> ArtifactPath(pattern, i), ok |-> ok,
                  url |-> BuildUrl(encoded_pattern), pattern |-> pattern,
                  base64 |-> encoded_pattern,
                  status_code |-> response.status_code,
                  content_length |-> response.content_length])
          /\ curl_file' = IF ok THEN ArtifactPath(pattern, i) ELSE None
    /\ pc' = "append"
    /\ UNCHANGED << curl_dir, max_patterns, total_patterns, patterns, i, pattern,
                    encoded_pattern, url, response, results, log_file, summary,
                    flagged, delays, iters, exc, report, entered >>

\* lines 120-130
AppendResult ==
    /\ pc = "append"
    /\ results' = Append(results,
           [pattern |-> pattern, encoded_pattern |-> encoded_pattern, url |-> url,
            status_code |-> response.status_code,
            content_length |-> response.content_length,
            curl_file |-> curl_file])
    /\ pc' = "flag"
    /\ UNCHANGED << curl_dir, max_patterns, total_patterns, patterns, i, pattern,
                    encoded_pattern, url, response, curl_file, files, log_file,
                    summary, flagged, delays, iters, exc, report, entered >>

\* Interesting with "or" binding tighter than "and"
Interesting_OrFirst(r) ==
    (r.status_code >= ErrorStatus \/ r.status_code = OkStatus)
        /\ r.content_length = 0

\* the condition of line 133: "or" binds looser than "and"
Interesting(r) ==
    r.status_code >= ErrorStatus
        \/ (r.status_code = OkStatus /\ r.content_length = 0)

\* lines 133-134
Flag ==
    /\ pc = "flag"
    /\ flagged' = IF Interesting(response) THEN Append(flagged, i) ELSE flagged
    /\ pc' = "sleep"
    /\ UNCHANGED << curl_dir, max_patterns, total_patterns, patterns, i, pattern,
                    encoded_pattern, url, response, curl_file, results, files,
                    log_file, summary, delays, iters, exc, report, entered >>

\* line 136: time.sleep(self.delay) returns and the try block is left
Sleep ==
    /\ pc = "sleep"
    /\ delays' = delays + 1
    /\ iters' = [iters EXCEPT ![i].end = "completed"]
    /\ pc' = "loop"
    /\ UNCHANGED << curl_dir, max_patterns, total_patterns, patterns, i, pattern,
                    encoded_pattern, url, response, curl_file, results, files,
                    log_file, summary, flagged, exc, report, entered >>

\* HandleRequestException with a break at the end of the handler
HandleRequestException_Break ==
    /\ pc = "h_req"
    /\ results' = Append(results,
           [pattern |-> pattern, encoded_pattern |-> encoded_pattern, url |-> url,
            error |-> exc])
    /\ iters' = [iters EXCEPT ![i].end = "transport"]
    /\ pc' = "save_results"
    /\ UNCHANGED << curl_dir, max_patterns, total_patterns, patterns, i, pattern,
                    encoded_pattern, url, response, curl_file, files, log_file,
                    summary, flagged, delays, exc, report, entered >>

\* lines 139-151: except requests.exceptions.RequestException
HandleRequestException ==
    /\ pc = "h_req"
    /\ results' = Append(results,
           [pattern |-> pattern, encoded_pattern |-> encoded_pattern, url |-> url,
            error |-> exc])
    /\ iters' = [iters EXCEPT ![i].end = "transport"]
    /\ pc' = "loop"
    /\ UNCHANGED << curl_dir, max_patterns, total_patterns, patterns, i, pattern,
                    encoded_pattern, url, response, curl_file, files, log_file,
                    summary, flagged, delays, exc, report, entered >>

\* lines 154-155: except KeyboardInterrupt: break
HandleKeyboardInterrupt ==
    /\ pc = "h_ki"
    /\ pc' = "save_results"
    /\ UNCHANGED << curl_dir, max_patterns, total_patterns, patterns, i, pattern,
                    encoded_pattern, url, response, curl_file, results, files,
                    log_file, summary, flagged, delays, iters, exc, report, entered >>

\* lines 157-159: except Exception
HandleException ==
    /\ pc = "h_exc"
    /\ pc' = "loop"
    /\ UNCHANGED << curl_dir, max_patterns, total_patterns, patterns, i, pattern,
                    encoded_pattern, url, response, curl_file, results, files,
                    log_file, summary, flagged, delays, iters, exc, report, entered >>

-----------------------------------------------------------------------------
(* The reporter *)

\* save_results: json.dump(self.results) into the log file, or an exception
\* caught and printed at lines 173-174
SaveResults ==
    /\ pc = "save_results"
    /\ \E ok \in BOOLEAN : log_file' = IF ok THEN << results >> ELSE log_file
    /\ report' = Append(report, "save_results")
    /\ pc' = "print_summary"
    /\ UNCHANGED << curl_dir, max_patterns, total_patterns, patterns, i, pattern,
                    encoded_pattern, url, response, curl_file, results, files,
                    summary, flagged, delays, iters, exc, entered >>

\* the records with a status_code, lines 181
Successful(rs) == { j \in DOMAIN rs : "status_code" \in DOMAIN rs[j] }

\* the records with an error, line 182
Errors(rs) == { j \in DOMAIN rs : "error" \in DOMAIN rs[j] }

\* the records with a curl_file that is not None, line 190
CurlFiles(rs) == { j \in DOMAIN rs :
                     "curl_file" \in DOMAIN rs[j] /\ rs[j].curl_file # None }

\* the status code table of lines 184-187
StatusCodes(rs) ==
    [c \in { rs[j].status_code : j \in Successful(rs) } |->
        Cardinality({ j \in Successful(rs) : rs[j].status_code = c })]

\* the figures print_summary prints
Summarize(rs) ==
    [total |-> Len(rs),
     successful |-> Cardinality(Successful(rs)),
     errors |-> Cardinality(Errors(rs)),
     curl_files |-> Cardinality(CurlFiles(rs)),
     status_codes |-> StatusCodes(rs)]

\* print_summary returns, then fuzz_server and main
PrintSummary ==
    /\ pc = "print_summary"
    /\ summary' = << Summarize(results) >>
    /\ report' = Append(report, "print_summary")
    /\ pc' = "done"
    /\ UNCHANGED << curl_dir, max_patterns, total_patterns, patterns, i, pattern,
                    encoded_pattern, url, response, curl_file, results, files,
                    log_file, flagged, delays, iters, exc, entered >>

-----------------------------------------------------------------------------
(* Exceptions *)

\* InterruptTarget with the loop's except KeyboardInterrupt covering the
\* except clauses too
InterruptTarget_LoopCatchesAll(p) ==
    IF p = "construct" THEN "uncaught"
    ELSE IF p \in TryBody \cup Handlers THEN "h_ki"
    ELSE "cancelled"

\* where a KeyboardInterrupt delivered at statement p is caught: in the
\* constructor nowhere; inside the loop's try block by line 153; anywhere
\* else under main's try by line 230
InterruptTarget(p) ==
    IF p = "construct" THEN "uncaught"
    ELSE IF p \in TryBody THEN "h_ki"
    ELSE "cancelled"

\* RaiseTarget without the except Exception clause of the loop
RaiseTarget_AlwaysFatal(p) == "fatal"

\* where an exception (not a RequestException, not one save_curl_response or
\* save_results catches itself) raised at statement p is caught: inside the
\* loop's try block by line 156; anywhere else under main's try by line 232
RaiseTarget(p) ==
    IF p \in TryBody THEN "h_exc" ELSE "fatal"

\* a KeyboardInterrupt is delivered (inside the try block those delivered at
\* InterruptPoints are followed)
Interrupt ==
    /\ pc \notin Terminal
    /\ pc \in TryBody => pc \in InterruptPoints
    /\ pc' = InterruptTarget(pc)
    /\ iters' = IF pc \in TryBody
                THEN [iters EXCEPT ![i].end = "interrupted", ![i].at = pc]
                ELSE iters
    /\ UNCHANGED << curl_dir, max_patterns, total_patterns, patterns, i, pattern,
                    encoded_pattern, url, response, curl_file, results, files,
                    log_file, summary, flagged, delays, exc, report, entered >>

\* a statement raises: input() (EOFError), the generator (MemoryError), a
\* statement of the try block (the one of RaisePoints is followed), a print
\* of a handler or of print_summary
Raise ==
    /\ pc \in { "prompt", "gen", "print_summary" } \cup RaisePoints \cup Handlers
    /\ pc' = RaiseTarget(pc)
    /\ iters' = IF pc \in TryBody
                THEN [iters EXCEPT ![i].end = "unexpected", ![i].at = pc]
                ELSE iters
    /\ UNCHANGED << curl_dir, max_patterns, total_patterns, patterns, i, pattern,
                    encoded_pattern, url, response, curl_file, results, files,
                    log_file, summary, flagged, delays, exc, report, entered >>

-----------------------------------------------------------------------------
(* The specification *)

Next ==
    \/ Construct
    \/ ConstructFails
    \/ Start
    \/ GenStep
    \/ GenReturn
    \/ LoopNext
    \/ LoopExit
    \/ Encode
    \/ GetResponse
    \/ GetTransportError
    \/ SaveArtifact
    \/ AppendResult
    \/ Flag
    \/ Sleep
    \/ HandleRequestException
    \/ HandleKeyboardInterrupt
    \/ HandleException
    \/ SaveResults
    \/ PrintSummary
    \/ Interrupt
    \/ Raise

Spec == Init /\ [][Next]_vars

-----------------------------------------------------------------------------
(* Reading the history of a run *)

\* iteration k has appended its record: it ran to the end of the try block or
\* of the RequestException handler, or it is, or was cut short, past line 130
Recorded(k) ==
    \/ iters[k].end \in { "completed", "transport" }
    \/ iters[k].end \in { "unexpected", "interrupted" } /\ iters[k].at \in { "flag", "sleep" }
    \/ iters[k].end = "open" /\ k = i /\ pc \in { "flag", "sleep" }

\* the place in results of the record of iteration k
RecIndex(k) == Cardinality({ j \in 1..k : Recorded(j) })

\* the artifact writes attempted under the name of iteration k
Writes(k) == LET name == ArtifactPath(patterns[k], k)
             IN  { j \in DOMAIN files : files[j].path = name }

\* iteration k has executed lines 133-134
PastFlag(k) ==
    \/ iters[k].end = "completed"
    \/ iters[k].end \in { "unexpected", "interrupted" } /\ iters[k].at = "sleep"
    \/ iters[k].end = "open" /\ k = i /\ pc = "sleep"

\* the loop has been left for the reporter
Reporting == pc \in { "save_results", "print_summary", "done" }

\* the three states of a run
RunState == IF pc \in { "construct", "prompt" } THEN "Idle"
            ELSE IF pc \in InFuzzServer THEN "Running"
            ELSE "Finished"

-----------------------------------------------------------------------------
(* C1 *)

\* C1: when the GET of iteration k fails with a RequestException, the
\* iteration ends in the handler of line 138 and nowhere else; once the
\* handler has run, results holds a Failure record for k carrying k's
\* pattern and a non-empty error text, and control is back at the head of
\* the loop with k+1 still to come: the reporter is not reached, and the run
\* not ended, while patterns remain (an interrupt delivered at the loop head
\* is the one other way on).
C1_TransportFailureRecovered ==
    \A k \in 1..Len(iters) :
        iters[k].got = "transport" =>
            /\ iters[k].end \in { "open", "transport" }
            /\ iters[k].end = "open" => k = i /\ pc \in { "h_req", "cancelled", "fatal" }
            /\ iters[k].end = "transport" =>
                  /\ RecIndex(k) \in DOMAIN results
                  /\ LET r == results[RecIndex(k)]
                     IN  /\ DOMAIN r = { "pattern", "encoded_pattern", "url", "error" }
                         /\ r.pattern = patterns[k]
                         /\ r.error # ""
                  /\ (i = k /\ k < Len(patterns)) => pc \in { "loop", "cancelled" }

\* the GET of pattern 2 is being issued after the GET of pattern 1 failed
C1_Witness ==
    /\ pc = "get"
    /\ i = 2
    /\ iters[1].end = "transport"
    /\ Len(results) = 1
    /\ "error" \in DOMAIN results[1]

-----------------------------------------------------------------------------
(* C2 *)

\* C2 as stated: whenever a run that entered fuzz_server has ended, the
\* reporter has executed, save_results then print_summary.
C2_AsClaimed ==
    (entered /\ pc \in Terminal) => report = << "save_results", "print_summary" >>

\* C2, amended: a run is Idle, Running or Finished.  The reporter is reached
\* only from the loop: when the list is exhausted, or through the loop's
\* KeyboardInterrupt handler after an interrupt delivered inside the try
\* block (the sleep included).  It runs save_results, then print_summary, and
\* main returns normally exactly when both have run.  A run that ends any
\* other way (main's "cancelled" or "Fatal error" branch, or uncaught) has
\* printed no summary.
C2_ReporterOnlyFromLoop ==
    /\ RunState \in { "Idle", "Running", "Finished" }
    /\ RunState = "Finished" <=> pc \in Terminal
    /\ report \in { << >>, << "save_results" >>, << "save_results", "print_summary" >> }
    /\ (pc = "done") <=> (report = << "save_results", "print_summary" >>)
    /\ (pc = "done") <=> (summary # << >>)
    /\ pc = "print_summary" => report = << "save_results" >>
    /\ pc = "h_ki" => iters[i].end = "interrupted" /\ iters[i].at \in TryBody
    /\ (Reporting \/ report # << >>) =>
          \/ /\ i = Len(patterns)
             /\ \A k \in 1..Len(iters) : iters[k].end \in { "completed", "transport", "unexpected" }
          \/ /\ i = Len(iters)
             /\ i >= 1
             /\ iters[i].end = "interrupted"

\* a run cancelled from inside the RequestException handler, after a record
\* was appended and with no report
C2_Witness ==
    /\ pc = "cancelled"
    /\ entered
    /\ Len(results) = 1
    /\ i = 2
    /\ iters[2].got = "transport"
    /\ iters[2].end = "open"
    /\ report = << >>

-----------------------------------------------------------------------------
(* C3 *)

\* C3 as stated: on full completion the reporter finds one record per
\* iteration, N in all, whatever the outcomes were.
C3_AsClaimed ==
    (pc = "done" /\ \A k \in 1..Len(iters) : iters[k].end # "interrupted")
        => Len(results) = Len(patterns)

\* What the code does in place of C3: when the reporter runs, results holds,
\* in order, one record for each iteration that reached its append (line 130 after a response,
\* whether or not the artifact was written, or line 146 after a transport
\* failure) and none for an iteration that an unexpected exception or an
\* interrupt cut short before its append; so at most one record per started
\* iteration.  The log written and the summary printed are computed from
\* exactly these records: total is their number, successful the recorded
\* responses, errors the transport failures.
RecordsAreTheAppends ==
    Reporting =>
        /\ Len(results) = RecIndex(Len(iters))
        /\ Len(results) <= Len(iters)
        /\ \A k \in 1..Len(iters) :
              Recorded(k) => results[RecIndex(k)].pattern = patterns[k]
        /\ \A k \in 1..Len(iters) :
              (iters[k].end = "unexpected" /\ iters[k].at = "get") => ~Recorded(k)
        /\ log_file # << >> => log_file[1] = results
        /\ summary # << >> =>
              /\ summary[1].total = Len(results)
              /\ summary[1].successful =
                    Cardinality({ k \in 1..Len(iters) :
                                    Recorded(k) /\ iters[k].got = "response" })
              /\ summary[1].errors =
                    Cardinality({ k \in 1..Len(iters) : iters[k].end = "transport" })
              /\ summary[1].successful + summary[1].errors = summary[1].total

\* a full run of two patterns, the first ended by an unexpected exception at
\* the GET, reported with one record
RecordsAreTheAppends_Witness ==
    /\ pc = "done"
    /\ Len(patterns) = 2
    /\ i = 2
    /\ iters[1].end = "unexpected"
    /\ iters[1].at = "get"
    /\ iters[2].end = "completed"
    /\ summary[1].total = 1

-----------------------------------------------------------------------------
(* C4 *)

\* C4 as stated: no exception leaves main uncaught, and main's "Fatal error"
\* branch is taken only for an error raised before the loop is entered.
C4_AsClaimed ==
    /\ pc # "uncaught"
    /\ pc = "fatal" => iters = << >>

\* C4, amended: an error raised at the start prompt or in pattern generation
\* is caught by main's except Exception and the run ends with "Fatal error";
\* an error of the constructor is raised before main's try block and leaves
\* main uncaught.  Inside fuzz_server, an exception raised in the loop's try
\* block is never fatal, and neither is a failed write of save_curl_response
\* or of save_results; an exception raised inside an except clause of the
\* loop or in print_summary is fatal as well.
C4_WhatIsFatal ==
    [][ /\ pc \in { "prompt", "gen" } /\ pc' \notin { "gen", "loop", "cancelled" }
            => pc' = "fatal"
        /\ (pc' = "uncaught" /\ pc # "uncaught") => pc = "construct"
        /\ (pc' = "fatal" /\ pc # "fatal")
            => pc \in { "prompt", "gen", "print_summary" } \cup Handlers
        /\ pc \in TryBody \cup { "loop", "save_results" }
            => pc' \notin { "fatal", "uncaught" } ]_vars

\* main's "Fatal error" branch taken for a failure of pattern generation
C4_Witness ==
    /\ pc = "fatal"
    /\ entered
    /\ Len(patterns) = 1
    /\ i = 0
    /\ iters = << >>

-----------------------------------------------------------------------------
(* C5 *)

\* C5: whenever the GET of an iteration after the first is about to be
\* issued, one delay has been slept for each earlier iteration.
C5_DelayBetweenIterations ==
    (pc = "get" /\ i > 1) => delays = i - 1

-----------------------------------------------------------------------------
(* C6 *)

\* C6 as stated: every iteration that issued its GET and ran to its end, with
\* a response or with a transport failure, attempted exactly one artifact
\* write under its name.
C6_AsClaimed ==
    \A k \in 1..Len(iters) :
        iters[k].end \in { "completed", "transport" } => Cardinality(Writes(k)) = 1

\* the name of the artifact of sequence number 7 and pattern "@@@"
ArtifactPathExample ==
    ArtifactPath(<< "@", "@", "@" >>, 7)
        = << "curl", "/", "response_", "0", "0", "0", "0", "0", "7",
             "_", "_", "_", "_", ".txt" >>

\* C6, amended: an artifact write is attempted only for an iteration whose GET
\* returned a response, at most once, and exactly once when the iteration runs
\* on past save_curl_response; it is attempted under the name derived from the
\* iteration's sequence number (zero-padded to six digits) and its sanitized
\* pattern, and the file holds that iteration's url, pattern and encoding.  An
\* iteration whose GET ends in a transport failure attempts no artifact write.
C6_OneWritePerResponse ==
    /\ ArtifactPathExample
    /\ \A k \in 1..Len(iters) :
          LET w == Writes(k)
              enc == b64encode(patterns[k])
          IN  /\ Cardinality(w) <= 1
              /\ iters[k].got # "response" => w = { }
              /\ (iters[k].end = "completed" \/ (Recorded(k) /\ iters[k].got = "response"))
                    => Cardinality(w) = 1
              /\ \A j \in w :
                    /\ files[j].pattern = patterns[k]
                    /\ files[j].base64 = enc
                    /\ files[j].url = BASE_URL \o enc
    /\ Len(files) = Cardinality(UNION { Writes(k) : k \in 1..Len(iters) })

\* two iterations done, a transport failure without a write and a response
\* with its write
C6_Witness ==
    /\ pc = "loop"
    /\ i = 2
    /\ iters[1].end = "transport"
    /\ iters[2].end = "completed"
    /\ Len(files) = 1
    /\ Writes(1) = { }
    /\ Writes(2) = { 1 }

-----------------------------------------------------------------------------
(* C7 *)

\* C7: a failed artifact write leaves the iteration inside its try block, on
\* its way to the append: once the record is appended it is a Success record
\* with the response's status code and content length and with curl_file
\* None; the iteration then ends as any other does (completed, or cut short
\* by a later interrupt), and after it completed
\* the loop is at its head with the remaining patterns still to come.  The
\* summary counts as saved exactly the recorded iterations whose write
\* succeeded.
C7_WriteFailureIsNotFatal ==
    /\ \A j \in DOMAIN files :
          ~files[j].ok =>
              \E k \in 1..Len(iters) :
                  /\ j \in Writes(k)
                  /\ iters[k].end = "open" => k = i /\ pc \in { "append", "flag", "sleep" }
                  /\ iters[k].end \in { "open", "completed", "interrupted" }
                  /\ iters[k].end = "interrupted"
                        => iters[k].at \in { "append", "flag", "sleep" }
                  /\ Recorded(k) =>
                        /\ RecIndex(k) \in DOMAIN results
                        /\ LET r == results[RecIndex(k)]
                           IN  /\ r.pattern = patterns[k]
                               /\ "status_code" \in DOMAIN r
                               /\ r.status_code = files[j].status_code
                               /\ r.content_length = files[j].content_length
                               /\ r.curl_file = None
                  /\ (iters[k].end = "completed" /\ i = k /\ k < Len(patterns))
                        => pc \in { "loop", "cancelled" }
    /\ summary # << >> =>
          summary[1].curl_files =
              Cardinality({ k \in 1..Len(iters) :
                              Recorded(k) /\ \E j \in Writes(k) : files[j].ok })

\* a full run of two responses, the first artifact write failed and the
\* second succeeded: two successes and one saved file in the summary
C7_Witness ==
    /\ pc = "done"
    /\ Len(files) = 2
    /\ ~files[1].ok
    /\ files[2].ok
    /\ Len(results) = 2
    /\ results[1].curl_file = None
    /\ summary[1].successful = 2
    /\ summary[1].curl_files = 1

-----------------------------------------------------------------------------
(* C8 *)

\* the base64 text of "5@@12@31", of "@@@" and of "1@"
B64Examples ==
    /\ b64encode(<< "5", "@", "@", "1", "2", "@", "3", "1" >>)
          = << "N", "U", "B", "A", "M", "T", "J", "A", "M", "z", "E", "=" >>
    /\ b64encode(<< "@", "@", "@" >>) = << "Q", "E", "B", "A" >>
    /\ b64encode(<< "1", "@" >>) = << "M", "U", "A", "=" >>

\* C8: in every record of results the url is the base URL followed by the
\* record's encoded_pattern and nothing else, and the encoded_pattern is the
\* base64 text of the record's own pattern ("5@@12@31" gives "NUBAMTJAMzE=",
\* "@@@" gives "QEBA").
C8_RecordUrlAndEncoding ==
    /\ B64Examples
    /\ \A j \in DOMAIN results :
          /\ results[j].url = BASE_URL \o results[j].encoded_pattern
          /\ results[j].encoded_pattern = b64encode(results[j].pattern)

\* a Success record and a Failure record of two different patterns
C8_Witness ==
    /\ Len(results) = 2
    /\ "status_code" \in DOMAIN results[1]
    /\ "error" \in DOMAIN results[2]
    /\ results[1].pattern # results[2].pattern

-----------------------------------------------------------------------------
(* C9 *)

\* C9: when a sample count N is supplied, the generator never holds more
\* than N patterns, and the list fuzz_server iterates has exactly N.
C9_ExactlyNPatterns ==
    max_patterns # None =>
        /\ Len(patterns) <= max_patterns[1]
        /\ pc \in InFuzzServer \ { "gen" } => Len(patterns) = max_patterns[1]

-----------------------------------------------------------------------------
(* C10 *)

\* C10: an iteration that has passed line 133 is printed as interesting
\* exactly when its response has status >= 400, or status 200 and length 0;
\* and the step of lines 133-134 leaves results and the loop's variables
\* alone and goes on to the sleep whether or not it prints.
C10_InterestingIsAdvisory ==
    /\ [](\A k \in 1..Len(iters) :
            PastFlag(k)
              => LET r == results[RecIndex(k)]
                 IN  (\E m \in DOMAIN flagged : flagged[m] = k)
                        <=> (r.status_code >= 400
                                \/ (r.status_code = 200 /\ r.content_length = 0)))
    /\ [][ (pc = "flag" /\ pc' \notin { "h_ki", "h_exc" })
              => /\ pc' = "sleep"
                 /\ results' = results
                 /\ i' = i
                 /\ pattern' = pattern
                 /\ response' = response ]_vars

\* the second iteration is past line 133 unflagged with a 301 of length 0,
\* the first was flagged
C10_Witness ==
    /\ pc = "sleep"
    /\ i = 2
    /\ response = [status_code |-> 301, content_length |-> 0]
    /\ flagged = << 1 >>

====
